---- MODULE Spec2Model ----
(***************************************************************************)
(* A model of the allocators of zen_alloc (src/src/lib.rs):                *)
(*   StackAllocator<S>, BumpAllocator, DoubleBumpAllocator and             *)
(*   PoolAllocator<T>, with the raw handles (RadPtr, PoolPtr) they return. *)
(*                                                                         *)
(* Memory is a map from byte addresses to byte contents.  A value of a     *)
(* type T occupies size_of::<T>() consecutive bytes; every byte of the     *)
(* representation of the value v is modelled by the tag v.  A buffer is a  *)
(* base address plus a capacity; bytes outside every buffer are foreign    *)
(* memory.  An access to foreign memory is undefined behaviour: the model  *)
(* keeps the outcomes a build produces, the access landing in the foreign  *)
(* bytes (a read of bytes the program never wrote yielding any value), or  *)
(* the process faulting.  A run is followed up to and including its first  *)
(* undefined access and not beyond it.  A run of a pool is followed        *)
(* through the calls that break the caller's discipline (a handle          *)
(* deallocated twice, alloc on a full pool), MaxMisuse of them in a run.   *)
(*                                                                         *)
(* The cells of a pool are the array of PoolCell<T> the code addresses     *)
(* from buf; the region the global allocator returned for it, like the     *)
(* regions of the bump allocators, is kept in heap with its layout.  The   *)
(* array is longer than the region: PoolAllocator::new stores the cells    *)
(* into the bytes behind the region, which is undefined behaviour.  The    *)
(* process faults in new, or the stores land and the pool works on the     *)
(* cells where they are; the status "overrun" marks such a pool, and its   *)
(* run is followed as long as it accesses the cells new has written.       *)
(*                                                                         *)
(* The program writes through the handles it holds (DerefMut), the ones    *)
(* that dangle included: the handles returned before a clear or a rewind   *)
(* that gave their bytes back (kept in stale), and the handles of a pool   *)
(* that have been deallocated.                                             *)
(***************************************************************************)
EXTENDS Integers, Sequences, FiniteSets, TLC

(* ------------------------------ bounds -------------------------------- *)

\* Largest capacity (in bytes) a stack or bump allocator is constructed with
\* where every call is possible (Capacities); the runs of alloc and clear
\* alone go one byte further (InitArena).
MaxCap == 4

\* Of the handles a clear or a rewind has left dangling the program keeps
\* at most MaxStale; it drops the others.
MaxStale == 1

\* The number of allocations in the sequences a cleared allocator is
\* compared on with a fresh one.
MaxSeq == 4

\* Largest number of slots of a pool whose calls come in any order
\* (1 .. MaxPool), and of a pool of a scripted run (1 .. MaxScripted).
MaxPool == 2
MaxScripted == 3

\* At most MaxMisuse calls of a run break the caller's discipline of a pool.
MaxMisuse == 2

\* At most MaxRewinds calls of shrink and popn in a run of a stack.
MaxRewinds == 1

(* ------------------------------ types --------------------------------- *)

\* The Rust types allocated, by std::mem::size_of and std::mem::align_of:
\* u8, u16, u32.  A Rust size is always a multiple of the alignment.
U8   == [size |-> 1, align |-> 1]
U16  == [size |-> 2, align |-> 2]
U32  == [size |-> 4, align |-> 4]
Types == {U8, U16, U32}

MaxAlign == U32.align

\* The values stored: two, to tell an overwritten value from the original.
Vals == {1, 2}

\* Content of a byte no allocation has written.
Unwritten == 0

Capacities == {MaxCap - 1, MaxCap}
\* Address 0 is the null address.  A buffer starts at an aligned address
\* or one byte behind it (the global allocator owes a buffer of alignment 1
\* no more).
Bases == {MaxAlign, MaxAlign + 1}

\* Buffer 1 of a DoubleBumpAllocator is a second region of the heap; the
\* model places it behind buffer 0 and the bytes an overrun of buffer 0 can reach.
SecondBase(base, cap) == base + cap + MaxAlign

\* size_of::<usize>().
UsizeBytes == 8

\* StackAllocator<S> { stack: [u8; S], top: usize } as rustc lays it out:
\* the field top first, at the address of the struct (a multiple of 8), the
\* array stack behind it.  The struct of the model is at the address 8.
StackBases == {UsizeBytes + UsizeBytes}

Max(a, b) == IF a >= b THEN a ELSE b

\* An alignment larger than a page; the global allocator returns the
\* addresses BigAlign and 2 * BigAlign for it, for buffers of up to two
\* bytes (LifeSizes).
BigAlign == 2 ^ 17

\* Addresses of the modelled memory: every buffer and the bytes past its end
\* that an allocation can reach.
Addrs ==
    (0 .. Max(SecondBase(MaxAlign + 1, MaxCap) + MaxCap + MaxAlign - 1,
              UsizeBytes + UsizeBytes + MaxCap + MaxAlign))
    \cup UNION {b .. b + U16.size - 1 : b \in {BigAlign, BigAlign + BigAlign}}

NullPtr == 0

VARIABLES
    kind,       \* which allocator the program constructed
    status,     \* "running", "panicked" (Rust panic), "faulted" (the process was
                \* aborted: a memory fault, a panic that does not unwind),
                \* "undefined" (an access to foreign memory has landed) or
                \* "overrun" (the cells of the pool lie behind its region, and
                \* the accesses to them have landed)
    mem,        \* byte contents, by address
    sa,         \* StackAllocator { stack, top }
    ba,         \* BumpAllocator { buf, capacity, size }
    dba,        \* DoubleBumpAllocator { bufs, current }
    pa,         \* PoolAllocator<T> { buf, size, next_available }
    cells,      \* the PoolCell<T> at each slot index of the pool's array
    misuse,     \* the number of calls that have broken the caller's discipline:
                \* they deallocated a handle twice or allocated from a full pool
    handles,    \* the handles returned since the last clear, oldest first
    stale,      \* the handles returned before the last clear or rewind that
                \* the program still holds: they dangle
    live,       \* the addresses of the pool handles not deallocated since
    swaps,      \* the number of swap() calls so far, modulo 2
    last,       \* the last call and what it returned
    script,     \* the progress of a scripted run (see Reuse below)
    heap        \* the regions obtained from the global allocator, oldest first

vars == <<kind, status, mem, sa, ba, dba, pa, cells, misuse, handles, stale,
          live, swaps, last, script, heap>>

(* --------------------------- machine words ---------------------------- *)

\* usize is 64 bits wide on the targets the crate builds for.  A usize that
\* is only stored and complemented is kept as its 16-bit limbs, least
\* significant first; sizes and cursors are kept as integers.
UsizeBits == 64
LimbBits == 16
Limbs == 1 .. (UsizeBits \div LimbBits)
LimbMax == 2 ^ LimbBits - 1

\* The usize of a small number n (n <= LimbMax).
Usize(n) == [i \in Limbs |-> IF i = 1 THEN n ELSE 0]

\* The operator ! on usize: bitwise complement.
BitNot(w) == [i \in Limbs |-> LimbMax - w[i]]

\* The value of w when it is at most LimbMax, else -1 (a larger number).
SmallValue(w) == IF \A i \in Limbs : i > 1 => w[i] = 0 THEN w[1] ELSE -1

\* A usize that is a size or a cursor is kept as an integer: the number n
\* itself when it is small, and n - 2^64, a negative number, when it lies
\* that close below 2^64 (the values a wrapping subtraction from a small
\* number gives, and usize::MAX = -1).  Sums and differences of such numbers
\* modulo 2^64 are the sums and differences of the integers.
UsizeMax == -1

\* a < b on usize.
usize_lt(a, b) == IF (a < 0) = (b < 0) THEN a < b ELSE b < 0

\* a + b on usize overflows: a is close below 2^64 and the sum is past it.
usize_add_overflows(a, b) == a < 0 /\ b >= 0 /\ a + b >= 0

\* The cursor of the stack can also hold a usize far from 0 and from 2^64
\* (the bytes of a value stored over the field): such a usize is kept as two
\* integers, lo as above and hi, and is hi * 2^32 + lo modulo 2^64.

\* The byte i (0 the least significant) of the usize hi * 2^32 + lo.
usize_byte(lo, hi, i) ==
    IF i < 4 THEN (lo \div (256 ^ i)) % 256
    ELSE ((hi - (IF lo < 0 THEN 1 ELSE 0)) \div (256 ^ (i - 4))) % 256

\* The bytes of f + n modulo 2^64, for the usize of the bytes f and n < 256.
usize_add_bytes(f, n) ==
    [i \in DOMAIN f |->
        IF i = 0 THEN (f[0] + n) % 256
        ELSE (f[i] + (IF f[0] + n >= 256 /\ \A j \in 1 .. i - 1 : f[j] = 255
                      THEN 1 ELSE 0)) % 256]

\* The usize of the bytes f as the integers lo (top) and hi (top_high); the
\* most significant byte is below 128 or f is close below 2^64.
usize_of_bytes(f) ==
    LET neg == f[3] >= 128 IN
    [top      |-> f[0] + 256 * f[1] + 65536 * f[2]
                  + 16777216 * (IF neg THEN f[3] - 256 ELSE f[3]),
     top_high |-> IF neg /\ \A i \in 4 .. 7 : f[i] = 255 THEN 0
                  ELSE f[4] + 256 * f[5] + 65536 * f[6] + 16777216 * f[7]
                       + (IF neg THEN 1 ELSE 0)]

(* ------------------------------ memory -------------------------------- *)

\* <*mut u8>::align_offset(align): the bytes to add to ptr to make it a
\* multiple of align.
align_offset(ptr, align) == (align - (ptr % align)) % align

\* The representation of the value data of type T.
Repr(T, data) == [i \in 0 .. T.size - 1 |-> data]

\* std::ptr::write(ptr, data): the bytes of data stored at ptr.
ptr_write(m, ptr, T, data) ==
    [a \in DOMAIN m |-> IF ptr <= a /\ a < ptr + T.size THEN data ELSE m[a]]

\* The bytes a handle of type T at ptr reads.
ptr_read(m, ptr, T) == [i \in 0 .. T.size - 1 |-> m[ptr + i]]

\* The bytes [ptr, ptr + n) lie inside the buffer [buf, buf + cap).
InBuffer(ptr, n, buf, cap) == buf <= ptr /\ ptr + n <= buf + cap

(* ------------------------ the global allocator ------------------------ *)

\* std::alloc::Layout: a size and an alignment.
Layout(size, align) == [size |-> size, align |-> align]
NoLayout == Layout(0, 0)

RECURSIVE is_power_of_two(_)
is_power_of_two(n) == n = 1 \/ (n > 1 /\ n % 2 = 0 /\ is_power_of_two(n \div 2))

\* Layout::from_size_align(size, align): an error when align is zero or no
\* power of two, or when size exceeds isize::MAX - (align - 1); of the usize
\* values kept, those that do are the ones kept as negative numbers.
Layout_from_size_align(size, align) ==
    IF align = 0 \/ ~is_power_of_two(align) \/ size < 0
    THEN [ok |-> FALSE, layout |-> NoLayout]
    ELSE [ok |-> TRUE, layout |-> Layout(size, align)]

\* Layout::array::<T>(n): n elements of T; an error when the size overflows.
Layout_array(T, n) ==
    IF n < 0 THEN [ok |-> FALSE, layout |-> NoLayout]
    ELSE [ok |-> TRUE, layout |-> Layout(T.size * n, T.align)]

\* A region of the global allocator: its address, the layout it was
\* requested with and the layouts it has been freed with, in order.
Region(ptr, layout, frees) == [ptr |-> ptr, layout |-> layout, frees |-> frees]

\* std::alloc::alloc(layout) returning ptr (null: the request failed).
global_alloc(h, ptr, layout) ==
    IF ptr = NullPtr THEN h ELSE Append(h, Region(ptr, layout, << >>))

\* std::alloc::dealloc(ptr, layout).
global_dealloc(h, ptr, layout) ==
    [i \in DOMAIN h |->
        IF h[i].ptr = ptr THEN [h[i] EXCEPT !.frees = Append(@, layout)] ELSE h[i]]

(* ---------------------------- RadPtr<T> ------------------------------- *)

RadPtr(ptr, T) == [ptr |-> ptr, T |-> T]

\* Clone for RadPtr: a copy of the address.
RadPtr_clone(p) == [ptr |-> p.ptr, T |-> p.T]

\* Deref for RadPtr: the pointee, or a panic on a null address.
RadPtr_deref(m, p) ==
    IF p.ptr = NullPtr THEN [panic |-> TRUE, value |-> << >>]
    ELSE [panic |-> FALSE, value |-> ptr_read(m, p.ptr, p.T)]

\* DerefMut for RadPtr, and the store *p = v through it: the bytes of v at
\* the address, or a panic on a null address.
RadPtr_deref_mut(m, p, v) ==
    IF p.ptr = NullPtr THEN [panic |-> TRUE, mem |-> m]
    ELSE [panic |-> FALSE, mem |-> ptr_write(m, p.ptr, p.T, v)]

(* ------------------------- StackAllocator<S> -------------------------- *)

\* StackAllocator::new: the array stack (S bytes at the address stack), top 0.
\* The cursor is the usize top_high * 2^32 + top (see usize_byte); top_high
\* is 0 but after a store over the field.
StackAllocator_new(stack, S) == [stack |-> stack, S |-> S, top |-> 0, top_high |-> 0]

StackAllocator_len(self) == self.S

\* An outcome of alloc: the allocator and memory afterwards, the result (ok
\* with the handle's address, or the error) and the status of the process.
Outcome(self, m, ok, ptr, status_) ==
    [self |-> self, mem |-> m, ok |-> ok, ptr |-> ptr, status |-> status_]

\* The store self.top += data_size + offset that follows ptr::write(ptr,
\* data) in alloc, in the bytes of memory: where ptr::write has reached bytes
\* of the field top (a cursor that wrapped around puts ptr before the
\* array), they hold the bytes of the new cursor w afterwards.
store_top(m, stack, w, ptr, n) ==
    [a \in DOMAIN m |->
        IF stack - UsizeBytes <= a /\ a < stack /\ ptr <= a /\ a < ptr + n
        THEN usize_byte(w.top, w.top_high, a - (stack - UsizeBytes)) ELSE m[a]]

\* StackAllocator::alloc with a cursor that leaves the padding out
\* (self.top += data_size where the code has data_size + offset).
StackAllocator_alloc_no_padding(self, m, T, data) ==
    LET data_size == T.size
        overflow  == IF self.top_high = 0 /\ usize_add_overflows(self.top, data_size)
                     THEN {Outcome(self, m, FALSE, NullPtr, "panicked")} ELSE {}
    IN overflow \cup
       IF self.top_high # 0 \/ usize_lt(StackAllocator_len(self), self.top + data_size)
       THEN {Outcome(self, m, FALSE, NullPtr, "running")}
       ELSE LET ptr0   == self.stack + self.top
                offset == align_offset(ptr0, T.align)
                ptr    == ptr0 + offset
                inside == InBuffer(ptr, data_size, self.stack, self.S)
                stored == ptr_write(m, ptr, T, data)
                field  == [i \in 0 .. UsizeBytes - 1 |->
                              LET a == self.stack - UsizeBytes + i IN
                              IF ptr <= a /\ a < ptr + data_size THEN stored[a]
                              ELSE usize_byte(self.top, self.top_high, i)]
                kept   == [top |-> self.top + data_size,
                           top_high |-> self.top_high]
                back   == usize_of_bytes(usize_add_bytes(field, data_size))
                landed(w) ==
                    Outcome([self EXCEPT !.top = w.top, !.top_high = w.top_high],
                            IF ptr < self.stack
                            THEN store_top(stored, self.stack, w, ptr, data_size)
                            ELSE stored,
                            TRUE, ptr,
                            IF inside THEN "running" ELSE "undefined")
            IN IF inside THEN {landed(kept)}
               ELSE {landed(kept), Outcome(self, m, FALSE, NullPtr, "faulted")}
                    \cup (IF ptr < self.stack THEN {landed(back)} ELSE {})

\* StackAllocator::alloc(data: T): the set of outcomes.  The sum self.top +
\* data_size overflows for a cursor that has wrapped around: a build with
\* overflow checks panics, a build without them goes on with the sum modulo
\* 2^64.  The store is inside the array in all cases but an overrun, where
\* it is undefined behaviour: it lands in the bytes outside the array, or
\* the process faults.  A store that lands before the array is a store over
\* the field top: the cursor afterwards is the sum the build kept outside
\* memory (kept), or the sum made on the field read back from memory after
\* the store (back), as a build without optimisation makes it.
StackAllocator_alloc(self, m, T, data) ==
    LET data_size == T.size
        overflow  == IF self.top_high = 0 /\ usize_add_overflows(self.top, data_size)
                     THEN {Outcome(self, m, FALSE, NullPtr, "panicked")} ELSE {}
    IN overflow \cup
       IF self.top_high # 0 \/ usize_lt(StackAllocator_len(self), self.top + data_size)
       THEN {Outcome(self, m, FALSE, NullPtr, "running")}
       ELSE LET ptr0   == self.stack + self.top
                offset == align_offset(ptr0, T.align)
                ptr    == ptr0 + offset
                inside == InBuffer(ptr, data_size, self.stack, self.S)
                stored == ptr_write(m, ptr, T, data)
                field  == [i \in 0 .. UsizeBytes - 1 |->
                              LET a == self.stack - UsizeBytes + i IN
                              IF ptr <= a /\ a < ptr + data_size THEN stored[a]
                              ELSE usize_byte(self.top, self.top_high, i)]
                kept   == [top |-> self.top + data_size + offset,
                           top_high |-> self.top_high]
                back   == usize_of_bytes(usize_add_bytes(field, data_size + offset))
                landed(w) ==
                    Outcome([self EXCEPT !.top = w.top, !.top_high = w.top_high],
                            IF ptr < self.stack
                            THEN store_top(stored, self.stack, w, ptr, data_size)
                            ELSE stored,
                            TRUE, ptr,
                            IF inside THEN "running" ELSE "undefined")
            IN IF inside THEN {landed(kept)}
               ELSE {landed(kept), Outcome(self, m, FALSE, NullPtr, "faulted")}
                    \cup (IF ptr < self.stack THEN {landed(back)} ELSE {})

\* clear that leaves the cursor where it is.
StackAllocator_clear_no_reset(self) == self

StackAllocator_clear(self) == [self EXCEPT !.top = 0, !.top_high = 0]

\* shrink that rewinds to the start of the array whatever the watermark.
StackAllocator_shrink_to_start(self, to) == [self EXCEPT !.top = 0, !.top_high = 0]

\* StackAllocator::shrink(to): self.top = to.
StackAllocator_shrink(self, to) == [self EXCEPT !.top = to, !.top_high = 0]

\* StackAllocator::popn(n): self.shrink(self.top - n), the set of outcomes.
\* For n > top the subtraction overflows: a build with overflow checks
\* panics, a build without them wraps around.
StackAllocator_popn(self, n) ==
    LET wrapped == [self |-> [StackAllocator_shrink(self, self.top - n)
                                 EXCEPT !.top_high = self.top_high],
                    status |-> "running"]
    IN IF self.top_high = 0 /\ usize_lt(self.top, n)
       THEN {[self |-> self, status |-> "panicked"], wrapped}
       ELSE {wrapped}

(* --------------------------- BumpAllocator ---------------------------- *)

\* BumpAllocator::DEFAULT_ALIGNMENT: align_of::<u8>().
DEFAULT_ALIGNMENT == 1

\* BumpAllocator::with_align on success: buf is the region the global
\* allocator returned, layout the layout it was requested with, capacity its
\* size in bytes, size (the cursor) 0.
BumpAllocator_with_align(buf, size_bytes, align) ==
    [buf |-> buf, layout |-> Layout(size_bytes, align), capacity |-> size_bytes,
     size |-> 0]

\* BumpAllocator::alloc with the cursor advanced by the size of the value
\* alone (self.size += data_size, the padding forgotten).
BumpAllocator_alloc_no_padding(self, m, T, data) ==
    LET data_size == T.size IN
    IF self.size + data_size > self.capacity
    THEN {Outcome(self, m, FALSE, NullPtr, "running")}
    ELSE LET ptr0   == self.buf + self.size
             offset == align_offset(ptr0, T.align)
             ptr    == ptr0 + offset
             inside == InBuffer(ptr, data_size, self.buf, self.capacity)
             landed == Outcome([self EXCEPT !.size = @ + data_size],
                               ptr_write(m, ptr, T, data), TRUE, ptr,
                               IF inside THEN "running" ELSE "undefined")
         IN IF inside THEN {landed}
            ELSE {landed, Outcome(self, m, FALSE, NullPtr, "faulted")}

\* BumpAllocator::alloc(data: T): the set of outcomes, as for the stack.
BumpAllocator_alloc(self, m, T, data) ==
    LET data_size == T.size IN
    IF self.size + data_size > self.capacity
    THEN {Outcome(self, m, FALSE, NullPtr, "running")}
    ELSE LET ptr0   == self.buf + self.size
             offset == align_offset(ptr0, T.align)
             ptr    == ptr0 + offset
             inside == InBuffer(ptr, data_size, self.buf, self.capacity)
             landed == Outcome([self EXCEPT !.size = @ + data_size + offset],
                               ptr_write(m, ptr, T, data), TRUE, ptr,
                               IF inside THEN "running" ELSE "undefined")
         IN IF inside THEN {landed}
            ELSE {landed, Outcome(self, m, FALSE, NullPtr, "faulted")}

BumpAllocator_clear(self) == [self EXCEPT !.size = 0]

\* Drop for BumpAllocator: dealloc(self.buf, self.layout).
BumpAllocator_drop(self, h) == global_dealloc(h, self.buf, self.layout)

\* BumpAllocator::release(self): drop(self).
BumpAllocator_release(self, h) == BumpAllocator_drop(self, h)

(* ------------------------ DoubleBumpAllocator ------------------------- *)

\* DoubleBumpAllocator::with_align on success: two buffers, current 0.
\* bufs is indexed 0 and 1 as in the code.
DoubleBumpAllocator_with_align(a, b) ==
    [bufs |-> [i \in {0, 1} |-> IF i = 0 THEN a ELSE b], current |-> Usize(0)]

\* swap that also resets the cursors of the buffers.
DoubleBumpAllocator_swap_clears(self) ==
    [self EXCEPT !.current = BitNot(@),
                 !.bufs = [i \in {0, 1} |-> BumpAllocator_clear(@[i])]]

\* DoubleBumpAllocator::swap: self.current = !self.current.
DoubleBumpAllocator_swap(self) == [self EXCEPT !.current = BitNot(@)]

\* The index expression self.bufs[self.current] of current() and
\* current_mut(): the index when it is in bounds, else -1 (the access panics).
DoubleBumpAllocator_current(self) ==
    LET i == SmallValue(self.current) IN IF i \in {0, 1} THEN i ELSE -1

\* The drop of a DoubleBumpAllocator: of bufs[0], then of bufs[1].
DoubleBumpAllocator_drop(self, h) ==
    BumpAllocator_drop(self.bufs[1], BumpAllocator_drop(self.bufs[0], h))

(* -------------------------- PoolAllocator<T> -------------------------- *)

\* size_of::<isize>() and size_of::<bool>().
IsizeBytes == 8
BoolBytes == 1

RoundUp(n, a) == ((n + a - 1) \div a) * a

\* PoolCell<T> { cell: T, slot: isize, next: isize, valid: bool }: its
\* alignment and its size (the array stride).
PoolCell_align(T) == Max(T.align, IsizeBytes)
PoolCell_size(T) == RoundUp(T.size + IsizeBytes + IsizeBytes + BoolBytes, PoolCell_align(T))

PoolCell(cell, slot, next, valid) ==
    [cell |-> cell, slot |-> slot, next |-> next, valid |-> valid]

\* The slot index of the end of the free list.
Sentinel == -1

\* The cells the model keeps: the pool's own (0 .. size - 1) and the foreign
\* memory one stride before the array, where the sentinel leads.
Slots(size) == -1 .. size - 1
Owned(size) == 0 .. size - 1

\* The content of a field of foreign memory the program has not written; a
\* read of it as an isize yields any isize: Garbage has every slot index the
\* model keeps, and Wild for all the other values of isize.
Unknown == -2
Wild == -3
Garbage(size) == Slots(size) \cup {Wild}
ReadIsize(x, size) == IF x = Unknown THEN Garbage(size) ELSE {x}

\* PoolAllocator::new(size): the allocator.
PoolAllocator_new(buf, T, size) ==
    [buf |-> buf, T |-> T, layout |-> Layout_array(T, size).layout, size |-> size,
     next_available |-> 0]

\* PoolAllocator::new(size): the cells it leaves; cell is not initialised.
\* The loop writes the cells 0 .. size - 1, and back.next = -1 the cell at
\* size - 1, which for size 0 is the cell before the array.
PoolAllocator_new_cells(size) ==
    [i \in Slots(size) |->
        IF i \in Owned(size)
        THEN PoolCell(Unwritten, i, IF i = size - 1 THEN Sentinel ELSE i + 1, FALSE)
        ELSE PoolCell(Unwritten, Unknown, IF i = size - 1 THEN Sentinel ELSE Unknown,
                      FALSE)]

\* Drop for PoolAllocator: dealloc(self.buf, self.layout).
PoolAllocator_drop(self, h) == global_dealloc(h, self.buf, self.layout)

\* <*mut PoolCell<T>>::align_offset(align): the number of whole cells to add
\* to ptr to make it a multiple of align, or -1 (usize::MAX) when there is none.
cell_align_offset(ptr, align, stride) ==
    LET ks == {k \in 0 .. align - 1 : (ptr + k * stride) % align = 0}
    IN IF ks = {} THEN -1 ELSE CHOOSE k \in ks : \A j \in ks : k <= j

\* self.buf.offset(slot), the address at_ptr wraps in a PoolPtr.
PoolAllocator_at_ptr(self, slot) == self.buf + slot * PoolCell_size(self.T)

\* at_mut(slot): the address of the cell it returns (NullPtr stands for the
\* wild address of an offset of usize::MAX, never computed for an aligned buf).
PoolAllocator_at_mut(self, slot) ==
    LET stride == PoolCell_size(self.T)
        ptr    == self.buf + slot * stride
        offset == cell_align_offset(ptr, self.T.align, stride)
    IN IF offset = -1 THEN NullPtr ELSE ptr + offset * stride

\* The slot index of the cell at the address ptr, or Unknown for an address
\* that is no cell the model keeps.
SlotOf(self, ptr) ==
    LET stride == PoolCell_size(self.T)
        d      == ptr - self.buf
    IN IF d % stride = 0 /\ (d \div stride) \in Slots(self.size)
       THEN d \div stride ELSE Unknown

\* The cell of the slot lies inside the region of the pool, the layout.size
\* bytes at buf, at an address aligned for a PoolCell<T>.
PoolAllocator_in_region(self, slot) ==
    /\ InBuffer(PoolAllocator_at_ptr(self, slot), PoolCell_size(self.T),
                self.buf, self.layout.size)
    /\ PoolAllocator_at_ptr(self, slot) % PoolCell_align(self.T) = 0

\* The statuses of a process that goes on.
Operating == {"running", "overrun"}

\* The status after an access to the cell c that has landed: a cell of the
\* array that new has written is there to be accessed, inside the region or
\* behind it; any other cell is foreign memory.
Landed(self, c) ==
    IF c \notin Owned(self.size) THEN "undefined"
    ELSE IF PoolAllocator_in_region(self, c) THEN "running" ELSE "overrun"

\* An outcome of a pool call.
PoolOutcome(self, cs, ptr, status_) ==
    [self |-> self, cells |-> cs, ok |-> status_ # "faulted", ptr |-> ptr,
     status |-> status_]

\* PoolAllocator::alloc taking the next slot by index (next_available + 1)
\* where the code follows the cell's next.
PoolAllocator_alloc_by_index(self, cs, data) ==
    LET next_avail == self.next_available
        c          == SlotOf(self, PoolAllocator_at_mut(self, next_avail))
        ptr        == PoolAllocator_at_ptr(self, next_avail)
        inside     == c \in Owned(self.size)
        fault      == PoolOutcome(self, cs, NullPtr, "faulted")
    IN IF c = Unknown THEN {fault}
       ELSE LET landed ==
                    {PoolOutcome([self EXCEPT !.next_available =
                                      IF next_avail + 1 \in Owned(self.size)
                                      THEN next_avail + 1 ELSE Sentinel],
                                 [cs EXCEPT ![c].cell = data], ptr,
                                 Landed(self, c))}
            IN IF inside THEN landed ELSE landed \cup {fault}

\* PoolAllocator::dealloc with a check against a repeated call: it returns
\* at once when the slot of the handle is the head of the free list.
PoolAllocator_dealloc_checked(self, cs, ptr) ==
    LET c      == SlotOf(self, ptr)
        inside == c \in Owned(self.size)
        fault  == PoolOutcome(self, cs, NullPtr, "faulted")
    IN IF c = Unknown THEN {fault}
       ELSE IF c = self.next_available
            THEN {PoolOutcome(self, cs, NullPtr, Landed(self, c))}
       ELSE LET landed ==
                    {PoolOutcome([self EXCEPT !.next_available = n],
                                 [cs EXCEPT ![c].next = self.next_available],
                                 NullPtr,
                                 Landed(self, c)) :
                        n \in ReadIsize(cs[c].slot, self.size)}
            IN IF inside THEN landed ELSE landed \cup {fault}

\* PoolAllocator::dealloc that ends the free list at the freed cell
\* (cell.next = -1) where the code links it to the old head.
PoolAllocator_dealloc_drops_list(self, cs, ptr) ==
    LET c      == SlotOf(self, ptr)
        inside == c \in Owned(self.size)
        fault  == PoolOutcome(self, cs, NullPtr, "faulted")
    IN IF c = Unknown THEN {fault}
       ELSE LET landed ==
                    {PoolOutcome([self EXCEPT !.next_available = n],
                                 [cs EXCEPT ![c].next = Sentinel],
                                 NullPtr,
                                 Landed(self, c)) :
                        n \in ReadIsize(cs[c].slot, self.size)}
            IN IF inside THEN landed ELSE landed \cup {fault}

\* PoolAllocator::dealloc with its two assignments in the other order:
\* next_available = cell.slot, then cell.next = next_available.
PoolAllocator_dealloc_swapped(self, cs, ptr) ==
    LET c      == SlotOf(self, ptr)
        inside == c \in Owned(self.size)
        fault  == PoolOutcome(self, cs, NullPtr, "faulted")
    IN IF c = Unknown THEN {fault}
       ELSE LET landed ==
                    {PoolOutcome([self EXCEPT !.next_available = n],
                                 [cs EXCEPT ![c].next = n],
                                 NullPtr,
                                 Landed(self, c)) :
                        n \in ReadIsize(cs[c].slot, self.size)}
            IN IF inside THEN landed ELSE landed \cup {fault}

\* PoolAllocator::alloc(data): the set of outcomes.  At a slot of the pool
\* there is one; a cell outside the array is foreign memory, the access is
\* undefined behaviour: the process faults, or the store lands there and
\* next is read from it.
PoolAllocator_alloc(self, cs, data) ==
    LET next_avail == self.next_available
        c          == SlotOf(self, PoolAllocator_at_mut(self, next_avail))
        ptr        == PoolAllocator_at_ptr(self, next_avail)
        inside     == c \in Owned(self.size)
        fault      == PoolOutcome(self, cs, NullPtr, "faulted")
    IN IF c = Unknown THEN {fault}
       ELSE LET landed ==
                    {PoolOutcome([self EXCEPT !.next_available = n],
                                 [cs EXCEPT ![c].cell = data], ptr,
                                 Landed(self, c)) :
                        n \in ReadIsize(cs[c].next, self.size)}
            IN IF inside THEN landed ELSE landed \cup {fault}

\* PoolAllocator::dealloc(ptr): the set of outcomes, as for alloc.
PoolAllocator_dealloc(self, cs, ptr) ==
    LET c     == SlotOf(self, ptr)
        inside == c \in Owned(self.size)
        fault  == PoolOutcome(self, cs, NullPtr, "faulted")
    IN IF c = Unknown THEN {fault}
       ELSE LET landed ==
                    {PoolOutcome([self EXCEPT !.next_available = n],
                                 [cs EXCEPT ![c].next = self.next_available],
                                 NullPtr,
                                 Landed(self, c)) :
                        n \in ReadIsize(cs[c].slot, self.size)}
            IN IF inside THEN landed ELSE landed \cup {fault}

\* Deref for PoolPtr: the field cell of the cell the handle addresses.
PoolPtr_deref(self, cs, ptr) ==
    LET c == SlotOf(self, ptr) IN IF c = Unknown THEN Unknown ELSE cs[c].cell

\* DerefMut for PoolPtr, and the store *p = v through it: the field cell of
\* the cell the handle addresses is v, the other fields are as before.
PoolPtr_deref_mut(self, cs, ptr, v) ==
    LET c == SlotOf(self, ptr) IN IF c = Unknown THEN cs ELSE [cs EXCEPT ![c].cell = v]

(* ------------------------------- state -------------------------------- *)

\* The allocators the program did not construct.
NoStack  == StackAllocator_new(NullPtr, 0)
NoBump   == BumpAllocator_with_align(NullPtr, 0, DEFAULT_ALIGNMENT)
NoDouble == DoubleBumpAllocator_with_align(NoBump, NoBump)
NoPool   == PoolAllocator_new(NullPtr, U8, 0)
NoCells  == PoolAllocator_new_cells(0)

\* A handle the program holds: the RadPtr, the value last stored through it
\* (by the alloc that returned it, or by a write since) and the buffer (0 or
\* 1) it points into.
Handle(ptr, T, data, b) == [ptr |-> ptr, T |-> T, val |-> data, buf |-> b]

\* A call and its result: op the operation, ok whether it returned a handle
\* (for calls that return none: whether it returned), ptr the address
\* returned (for dealloc: passed), T and data the argument, before the cursor
\* (for the pool: next_available) before the call, buf and cap the buffer it
\* worked on; for a pool dealloc, free is the free list before the call; for
\* a pool alloc that follows a dealloc, prior is that dealloc; fresh tells
\* that the handle a pool alloc returned addresses no slot of a live handle,
\* and for a dealloc that the handle passed was live (held in prior).
Prior(op, ptr, free, held) == [op |-> op, ptr |-> ptr, free |-> free, held |-> held]
NoPrior == Prior("none", NullPtr, <<>>, FALSE)

Call(op, ok, ptr, T, data, before, buf, cap, free, prior, fresh) ==
    [op |-> op, ok |-> ok, ptr |-> ptr, T |-> T, data |-> data,
     before |-> before, buf |-> buf, cap |-> cap, free |-> free, prior |-> prior,
     fresh |-> fresh]

NoCall == Call("new", TRUE, NullPtr, U8, 0, 0, NullPtr, 0, << >>, NoPrior, TRUE)

\* The slots of the free list in order: the chain from next_available along
\* the cells' next fields, up to the sentinel, a slot outside the pool or a
\* slot met before (n bounds the walk).
RECURSIVE chain_from(_, _, _, _)
chain_from(cs, size, slot, n) ==
    IF slot \notin Owned(size) \/ n = 0 THEN << >>
    ELSE <<slot>> \o chain_from(cs, size, cs[slot].next, n - 1)

FreeList(self, cs) == chain_from(cs, self.size, self.next_available, self.size + 1)

\* The slot at which the walk of the free list stops.
RECURSIVE chain_end(_, _, _, _)
chain_end(cs, size, slot, n) ==
    IF slot \notin Owned(size) \/ n = 0 THEN slot
    ELSE chain_end(cs, size, cs[slot].next, n - 1)

FreeListEnd(self, cs) == chain_end(cs, self.size, self.next_available, self.size + 1)

NoScript == [phase |-> "none", freed |-> << >>, again |-> << >>]

\* The script of a run in any order: the number of rewinds (shrink, popn)
\* of the stack so far.
Rewinds(n) == [phase |-> "rewinds", n |-> n]

InitStack(caps) ==
    \E stack \in StackBases, S \in caps :
        /\ kind = "stack" /\ status = "running"
        /\ sa = StackAllocator_new(stack, S)
        /\ heap = << >>
        /\ ba = NoBump /\ dba = NoDouble
        /\ pa = NoPool /\ cells = NoCells

InitBump(caps) ==
    \E buf \in Bases, size_bytes \in caps :
        /\ kind = "bump" /\ status = "running"
        /\ ba = BumpAllocator_with_align(buf, size_bytes, DEFAULT_ALIGNMENT)
        /\ heap = global_alloc(<< >>, buf, Layout(size_bytes, DEFAULT_ALIGNMENT))
        /\ sa = NoStack /\ dba = NoDouble
        /\ pa = NoPool /\ cells = NoCells

InitDouble(caps) ==
    \E buf \in Bases, size_bytes \in caps :
        /\ kind = "double" /\ status = "running"
        /\ dba = DoubleBumpAllocator_with_align(
                     BumpAllocator_with_align(buf, size_bytes, DEFAULT_ALIGNMENT),
                     BumpAllocator_with_align(SecondBase(buf, size_bytes), size_bytes,
                                              DEFAULT_ALIGNMENT))
        /\ heap = global_alloc(
                      global_alloc(<< >>, buf, Layout(size_bytes, DEFAULT_ALIGNMENT)),
                      SecondBase(buf, size_bytes), Layout(size_bytes, DEFAULT_ALIGNMENT))
        /\ sa = NoStack /\ ba = NoBump
        /\ pa = NoPool /\ cells = NoCells

\* The element type of the pools constructed, and the addresses the global
\* allocator returns for Layout::array::<T>(size): multiples of align_of::<T>(),
\* one that is not aligned for a PoolCell<T> and one that is.  The runs of
\* a pool start from a region at the address that is.
PoolTypes == {U32}
ProviderBases(T) == {b \in 1 .. PoolCell_align(T) : b % T.align = 0}
PoolBases(T) == {b \in ProviderBases(T) : b % PoolCell_align(T) = 0}

\* PoolAllocator::new(size), where alloc(layout) returns ptr: the set of
\* outcomes.  A layout error panics (expect).  The cells are written without
\* a test of ptr: through a null ptr the process faults.  The loop stores
\* the cells 0 .. size - 1 at ptr; where they do not lie inside the region
\* (a region of layout.size bytes, at an address aligned for T) or ptr is
\* not aligned for a PoolCell<T>, the stores are undefined behaviour: they
\* land, or the process is aborted (a memory fault; the check of a build
\* with debug assertions against a misaligned reference).  For size 0 the
\* store back.next = -1 goes to the cell before the array, foreign memory:
\* it lands there, or the process faults.
PoolAllocator_try_new(T, size, ptr, h) ==
    LET l == Layout_array(T, size) IN
    IF ~l.ok
    THEN {[status |-> "panicked", self |-> NoPool, cells |-> NoCells, heap |-> h]}
    ELSE LET h1    == global_alloc(h, ptr, l.layout)
             fault == [status |-> "faulted", self |-> NoPool, cells |-> NoCells,
                       heap |-> h1]
             self  == PoolAllocator_new(ptr, T, size)
             made(status_) ==
                      [status |-> status_, self |-> self,
                       cells |-> PoolAllocator_new_cells(size), heap |-> h1]
         IN IF ptr = NullPtr THEN {fault}
            ELSE IF size = 0 THEN {made("undefined"), fault}
            ELSE IF \A c \in Owned(size) : PoolAllocator_in_region(self, c)
                 THEN {made("running")}
                 ELSE {made("overrun"), fault}

\* The kind of the program after PoolAllocator::new with the outcome o.
PoolKind(o) == IF o.status \in Operating \cup {"undefined"} THEN "pool" ELSE "failed"

InitPool(sizes) ==
    \E T \in PoolTypes, size \in sizes :
        \E buf \in PoolBases(T) :
            \E o \in PoolAllocator_try_new(T, size, buf, << >>) :
                /\ kind = PoolKind(o) /\ status = o.status
                /\ pa = o.self
                /\ cells = o.cells
                /\ heap = o.heap
                /\ sa = NoStack /\ ba = NoBump /\ dba = NoDouble

InitGhost ==
    /\ mem = [a \in Addrs |-> Unwritten]
    /\ handles = << >>
    /\ stale = {}
    /\ live = {}
    /\ swaps = 0
    /\ last = NoCall
    /\ misuse = 0

Init ==
    /\ InitGhost
    /\ script = Rewinds(0)
    /\ \/ InitStack(Capacities)
       \/ InitBump(Capacities)
       \/ InitDouble(Capacities)
       \/ InitPool(1 .. MaxPool)

(* ------------------------------ actions ------------------------------- *)

doubleVars == <<dba, swaps>>
poolVars   == <<pa, cells, misuse, live>>

\* The handles hs dangle from now on (a clear or a rewind has given their
\* bytes back): of them and the dangling ones it holds already the program
\* keeps some, at most MaxStale, and drops the others; the values stale can
\* have afterwards.
Dangling(hs) ==
    {kept \in SUBSET (stale \cup {RadPtr(hs[i].ptr, hs[i].T) : i \in DOMAIN hs}) :
        Cardinality(kept) <= MaxStale}

\* What a call of alloc with the outcome o leaves: the status, the new
\* memory, the handle when it returned one, and the record of the call.
AllocEffect(o, T, data, before, buf, cap, b) ==
    /\ status' = o.status
    /\ mem' = o.mem
    /\ handles' = IF o.ok THEN Append(handles, Handle(o.ptr, T, data, b)) ELSE handles
    /\ stale' = IF o.ok THEN stale \ {RadPtr(o.ptr, T)} ELSE stale
    /\ last' = Call("alloc", o.ok, o.ptr, T, IF o.ok THEN data ELSE 0, before, buf, cap,
                    << >>, NoPrior, TRUE)

\* sa.alloc(data)
StackAlloc ==
    /\ kind = "stack" /\ status = "running"
    /\ \E T \in Types, data \in Vals :
        \E o \in StackAllocator_alloc(sa, mem, T, data) :
            /\ sa' = o.self
            /\ AllocEffect(o, T, data, sa.top, sa.stack, sa.S, 0)
    /\ UNCHANGED <<kind, ba, doubleVars, poolVars, script, heap>>

\* sa.clear()
StackClear ==
    /\ kind = "stack" /\ status = "running"
    /\ sa' = StackAllocator_clear(sa)
    /\ handles' = << >>
    /\ stale' \in Dangling(handles)
    /\ last' = Call("clear", TRUE, NullPtr, U8, 0, sa.top, sa.stack, sa.S, << >>, NoPrior, TRUE)
    /\ UNCHANGED <<kind, status, mem, ba, doubleVars, poolVars, script, heap>>

\* The arguments of shrink and popn: every cursor value up to the largest
\* capacity, the one past it, and usize::MAX.
Watermarks == (0 .. MaxCap + 1) \cup {UsizeMax}

\* The handles that end at or before the cursor top: a rewind leaves the
\* others dangling.
Below(hs, stack, top) ==
    SelectSeq(hs, LAMBDA h : ~usize_lt(top, h.ptr + h.T.size - stack))

\* sa.shrink(to)
StackShrink ==
    /\ kind = "stack" /\ status = "running"
    /\ script.n < MaxRewinds
    /\ script' = Rewinds(script.n + 1)
    /\ \E to \in Watermarks :
        /\ sa' = StackAllocator_shrink(sa, to)
        /\ handles' = Below(handles, sa.stack, to)
        /\ stale' \in Dangling(SelectSeq(handles,
                                LAMBDA h : usize_lt(to, h.ptr + h.T.size - sa.stack)))
        /\ last' = Call("shrink", TRUE, NullPtr, U8, to, sa.top, sa.stack, sa.S,
                        << >>, NoPrior, TRUE)
    /\ UNCHANGED <<kind, status, mem, ba, doubleVars, poolVars, heap>>

\* sa.popn(n)
StackPopn ==
    /\ kind = "stack" /\ status = "running"
    /\ script.n < MaxRewinds
    /\ script' = Rewinds(script.n + 1)
    /\ \E n \in Watermarks :
        \E o \in StackAllocator_popn(sa, n) :
            /\ sa' = o.self
            /\ status' = o.status
            /\ handles' = Below(handles, sa.stack, o.self.top)
            /\ stale' \in Dangling(SelectSeq(handles,
                          LAMBDA h : usize_lt(o.self.top, h.ptr + h.T.size - sa.stack)))
            /\ last' = Call("popn", o.status = "running", NullPtr, U8, n, sa.top,
                            sa.stack, sa.S, << >>, NoPrior, TRUE)
    /\ UNCHANGED <<kind, mem, ba, doubleVars, poolVars, heap>>

\* ba.alloc(data)
BumpAlloc ==
    /\ kind = "bump" /\ status = "running"
    /\ \E T \in Types, data \in Vals :
        \E o \in BumpAllocator_alloc(ba, mem, T, data) :
            /\ ba' = o.self
            /\ AllocEffect(o, T, data, ba.size, ba.buf, ba.capacity, 0)
    /\ UNCHANGED <<kind, sa, doubleVars, poolVars, script, heap>>

\* ba.clear()
BumpClear ==
    /\ kind = "bump" /\ status = "running"
    /\ ba' = BumpAllocator_clear(ba)
    /\ handles' = << >>
    /\ stale' \in Dangling(handles)
    /\ last' = Call("clear", TRUE, NullPtr, U8, 0, ba.size, ba.buf, ba.capacity, << >>, NoPrior, TRUE)
    /\ UNCHANGED <<kind, status, mem, sa, doubleVars, poolVars, script, heap>>

\* The panic of an index out of bounds in current() / current_mut().
IndexPanic(op) ==
    /\ status' = "panicked"
    /\ last' = Call(op, FALSE, NullPtr, U8, 0, 0, NullPtr, 0, << >>, NoPrior, TRUE)
    /\ UNCHANGED <<kind, mem, sa, ba, doubleVars, poolVars, handles, stale, script, heap>>

\* dba.current_mut().alloc(data)
DoubleAlloc ==
    /\ kind = "double" /\ status = "running"
    /\ LET i == DoubleBumpAllocator_current(dba) IN
         IF i = -1 THEN IndexPanic("alloc")
         ELSE /\ \E T \in Types, data \in Vals :
                   \E o \in BumpAllocator_alloc(dba.bufs[i], mem, T, data) :
                       /\ dba' = [dba EXCEPT !.bufs[i] = o.self]
                       /\ AllocEffect(o, T, data, dba.bufs[i].size,
                                      dba.bufs[i].buf, dba.bufs[i].capacity, i)
              /\ UNCHANGED <<kind, sa, ba, swaps, poolVars, script, heap>>

\* dba.swap()
DoubleSwap ==
    /\ kind = "double" /\ status = "running"
    /\ dba' = DoubleBumpAllocator_swap(dba)
    /\ swaps' = (swaps + 1) % 2
    /\ last' = Call("swap", TRUE, NullPtr, U8, 0, 0, NullPtr, 0, << >>, NoPrior, TRUE)
    /\ UNCHANGED <<kind, status, mem, sa, ba, poolVars, handles, stale, script, heap>>

\* dba.clear(): self.current_mut().clear()
DoubleClear ==
    /\ kind = "double" /\ status = "running"
    /\ LET i == DoubleBumpAllocator_current(dba) IN
         IF i = -1 THEN IndexPanic("clear")
         ELSE /\ dba' = [dba EXCEPT !.bufs[i] = BumpAllocator_clear(@)]
              /\ handles' = SelectSeq(handles, LAMBDA h : h.buf # i)
              /\ stale' \in Dangling(SelectSeq(handles, LAMBDA h : h.buf = i))
              /\ last' = Call("clear", TRUE, NullPtr, U8, 0, dba.bufs[i].size,
                              dba.bufs[i].buf, dba.bufs[i].capacity, << >>, NoPrior, TRUE)
              /\ UNCHANGED <<kind, status, mem, sa, ba, swaps,
                             poolVars, script, heap>>

\* *h = v through a handle h of a stack, bump or double allocator that the
\* program holds, dangling or not (DerefMut for RadPtr).  The handles at
\* the same address of the same type are copies of h.
RadPtrWrite ==
    /\ kind \in {"stack", "bump", "double"} /\ status = "running"
    /\ \E p \in stale \cup {RadPtr(handles[i].ptr, handles[i].T) : i \in DOMAIN handles},
          v \in Vals :
        LET w == RadPtr_deref_mut(mem, p, v) IN
        /\ status' = IF w.panic THEN "panicked" ELSE status
        /\ mem' = w.mem
        /\ handles' = IF w.panic THEN handles
                       ELSE [i \in DOMAIN handles |->
                                IF RadPtr(handles[i].ptr, handles[i].T) = p
                                THEN [handles[i] EXCEPT !.val = v] ELSE handles[i]]
        /\ last' = Call("write", ~w.panic, NullPtr, U8, 0, 0,
                        NullPtr, 0, << >>, NoPrior, TRUE)
    /\ UNCHANGED <<kind, sa, ba, doubleVars, poolVars, stale, script, heap>>

\* The call pa.alloc(data) and its effect.
DoPoolAlloc(data) ==
    \E o \in PoolAllocator_alloc(pa, cells, data) :
        /\ pa' = o.self
        /\ cells' = o.cells
        /\ status' = o.status
        /\ live' = IF o.ok THEN live \cup {o.ptr} ELSE live
        /\ pa.next_available \notin Owned(pa.size) => misuse < MaxMisuse
        /\ misuse' = misuse + (IF pa.next_available \notin Owned(pa.size) THEN 1 ELSE 0)
        /\ last' = Call("alloc", o.ok, o.ptr, pa.T, data, pa.next_available,
                        pa.buf, pa.size, << >>,
                        IF last.op = "dealloc"
                        THEN Prior(last.op, last.ptr, last.free, last.fresh) ELSE NoPrior,
                        o.ptr \notin live)

\* The call pa.dealloc(ptr) and its effect.
DoPoolDealloc(ptr) ==
    \E o \in PoolAllocator_dealloc(pa, cells, ptr) :
        /\ pa' = o.self
        /\ cells' = o.cells
        /\ status' = o.status
        /\ live' = IF o.ok THEN live \ {ptr} ELSE live
        /\ ptr \notin live => misuse < MaxMisuse
        /\ misuse' = misuse + (IF ptr \notin live THEN 1 ELSE 0)
        /\ last' = Call("dealloc", o.ok, ptr, pa.T, 0, pa.next_available,
                        pa.buf, pa.size, FreeList(pa, cells), NoPrior, ptr \in live)

\* pa.alloc(data)
PoolAlloc ==
    /\ kind = "pool" /\ status \in Operating
    /\ \E data \in Vals : DoPoolAlloc(data)
    /\ UNCHANGED <<kind, mem, sa, ba, doubleVars, handles, stale, script, heap>>

\* pa.dealloc(ptr), for a handle alloc returned earlier: one the program
\* still holds, or a copy of one it has deallocated already.
PoolDealloc ==
    /\ kind = "pool" /\ status \in Operating
    /\ \E c \in Slots(pa.size) :
        /\ cells[c].cell # Unwritten
        /\ DoPoolDealloc(PoolAllocator_at_ptr(pa, c))
    /\ UNCHANGED <<kind, mem, sa, ba, doubleVars, handles, stale, script, heap>>

\* *h = v through a pool handle h (DerefMut for PoolPtr), for a handle alloc
\* returned earlier: one the program still holds, or a copy of one it has
\* deallocated already.
PoolPtrWrite ==
    /\ kind = "pool" /\ status \in Operating
    /\ \E c \in Slots(pa.size), v \in Vals :
        /\ cells[c].cell # Unwritten
        /\ cells' = PoolPtr_deref_mut(pa, cells, PoolAllocator_at_ptr(pa, c), v)
        /\ last' = Call("write", TRUE, NullPtr, pa.T, 0, 0,
                        pa.buf, pa.size, << >>, NoPrior, TRUE)
    /\ UNCHANGED <<kind, status, mem, sa, ba, doubleVars, pa, misuse,
                   live, handles, stale, script, heap>>

Next ==
    \/ StackAlloc
    \/ StackClear
    \/ StackShrink
    \/ StackPopn
    \/ BumpAlloc
    \/ BumpClear
    \/ DoubleAlloc
    \/ DoubleSwap
    \/ DoubleClear
    \/ PoolAlloc
    \/ PoolDealloc
    \/ RadPtrWrite
    \/ PoolPtrWrite

Spec == Init /\ [][Next]_vars

(* ----------------- the stack and the bump allocator ------------------- *)

\* The runs of a StackAllocator or a BumpAllocator: alloc, clear and the
\* writes through the handles, in any order.  With MaxCap + 1 bytes a stack
\* takes a third value behind one it has padded.
InitArena ==
    /\ InitGhost
    /\ script = NoScript
    /\ \E caps \in {{MaxCap - 1, MaxCap + 1}} : InitStack(caps) \/ InitBump(caps)

NextArena ==
    \/ StackAlloc
    \/ StackClear
    \/ BumpAlloc
    \/ BumpClear
    \/ RadPtrWrite

SpecArena == InitArena /\ [][NextArena]_vars

(* --------------------------- the pool on its own ----------------------- *)

\* The runs of a PoolAllocator: alloc, dealloc and the writes through the
\* handles, in any order.
InitPoolOnly ==
    /\ InitGhost
    /\ script = NoScript
    /\ InitPool(1 .. MaxPool)

NextPool ==
    \/ PoolAlloc
    \/ PoolDealloc
    \/ PoolPtrWrite

SpecPool == InitPoolOnly /\ [][NextPool]_vars

(* ------------------------- the reuse of a pool ------------------------- *)

\* A scripted run of a pool of N slots: N calls of alloc, then dealloc of
\* each of the N handles once, in any order, then N calls of alloc.
\* script.freed lists the handles in the order of their deallocation,
\* script.again the handles the second round of alloc returned.
Script(phase, freed, again) == [phase |-> phase, freed |-> freed, again |-> again]

InitReuse ==
    /\ InitGhost
    /\ InitPool(1 .. MaxScripted)
    /\ script = Script("fill", << >>, << >>)

ReuseFill ==
    /\ script.phase = "fill" /\ status \in Operating
    /\ \E data \in Vals : DoPoolAlloc(data)
    /\ script' = Script(IF Cardinality(live') = pa.size THEN "free" ELSE "fill",
                        << >>, << >>)
    /\ UNCHANGED <<kind, mem, sa, ba, doubleVars, handles, stale, heap>>

ReuseFree ==
    /\ script.phase = "free" /\ status \in Operating
    /\ \E ptr \in live :
        /\ DoPoolDealloc(ptr)
        /\ script' = Script(IF Len(script.freed) + 1 = pa.size THEN "refill" ELSE "free",
                            Append(script.freed, ptr), << >>)
    /\ UNCHANGED <<kind, mem, sa, ba, doubleVars, handles, stale, heap>>

ReuseRefill ==
    /\ script.phase = "refill" /\ status \in Operating
    /\ \E data \in Vals : DoPoolAlloc(data)
    /\ script' = Script(IF Len(script.again) + 1 = pa.size THEN "done" ELSE "refill",
                        script.freed, Append(script.again, last'.ptr))
    /\ UNCHANGED <<kind, mem, sa, ba, doubleVars, handles, stale, heap>>

NextReuse ==
    \/ ReuseFill
    \/ ReuseFree
    \/ ReuseRefill

SpecReuse == InitReuse /\ [][NextReuse]_vars

(* -------------------- the double buffer on its own --------------------- *)

\* The runs of a DoubleBumpAllocator: alloc, swap and clear in any order.
InitDoubleBuffer ==
    /\ InitGhost
    /\ script = NoScript
    /\ InitDouble(Capacities)

NextDouble ==
    \/ DoubleAlloc
    \/ DoubleSwap
    \/ DoubleClear
    \/ RadPtrWrite

SpecDouble == InitDoubleBuffer /\ [][NextDouble]_vars

(* ----------------------- the stack and its rewind ---------------------- *)

\* The runs of a StackAllocator: alloc, clear, shrink and popn in any order.
InitStackOnly ==
    /\ InitGhost
    /\ script = Rewinds(0)
    /\ InitStack(Capacities)

NextStack ==
    \/ StackAlloc
    \/ StackClear
    \/ StackShrink
    \/ StackPopn
    \/ RadPtrWrite

SpecStack == InitStackOnly /\ [][NextStack]_vars

\* A scripted run of a stack: alloc A, alloc B, alloc C, shrink to the
\* cursor read right after A, alloc D.  script.mark is that cursor and
\* script.top the cursor before the shrink; handles holds A, B, C and D.
Rewind(phase, mark, top) == [phase |-> phase, mark |-> mark, top |-> top]

InitRewind ==
    /\ InitGhost
    /\ InitStack(Capacities)
    /\ script = Rewind("A", 0, 0)

\* The phase after an alloc of the phase ph returned a handle.
AfterAlloc(ph) ==
    CASE ph = "A" -> "B" [] ph = "B" -> "C" [] ph = "C" -> "shrink" [] OTHER -> "done"

\* The allocations of A, B, C and D; the run ends (phase "off") when one of
\* A, B, C returns no handle.
RewindAlloc ==
    /\ script.phase \in {"A", "B", "C", "D"} /\ status = "running"
    /\ \E T \in Types, data \in Vals :
        \E o \in StackAllocator_alloc(sa, mem, T, data) :
            /\ sa' = o.self
            /\ AllocEffect(o, T, data, sa.top, sa.stack, sa.S, 0)
            /\ script' =
                 IF script.phase = "D" THEN [script EXCEPT !.phase = "done"]
                 ELSE IF ~o.ok \/ o.status # "running" THEN [script EXCEPT !.phase = "off"]
                 ELSE IF script.phase = "A" THEN Rewind("B", o.self.top, 0)
                 ELSE [script EXCEPT !.phase = AfterAlloc(script.phase)]
    /\ UNCHANGED <<kind, ba, doubleVars, poolVars, heap>>

\* sa.shrink(mark)
RewindShrink ==
    /\ script.phase = "shrink" /\ status = "running"
    /\ sa' = StackAllocator_shrink(sa, script.mark)
    /\ script' = Rewind("D", script.mark, sa.top)
    /\ last' = Call("shrink", TRUE, NullPtr, U8, script.mark, sa.top, sa.stack, sa.S,
                    << >>, NoPrior, TRUE)
    /\ UNCHANGED <<kind, status, mem, handles, stale, ba, doubleVars, poolVars, heap>>

NextRewind ==
    \/ RewindAlloc
    \/ RewindShrink

SpecRewind == InitRewind /\ [][NextRewind]_vars

(* ------------------ construction and destruction ---------------------- *)

\* The result of a construction: whether it returned an allocator, the
\* allocator, and the heap afterwards.
Built(ok, self, h) == [ok |-> ok, self |-> self, heap |-> h]

\* BumpAllocator::with_align that does not test the buffer for null.
BumpAllocator_try_with_align_no_null_check(size_bytes, align, ptr, h) ==
    LET l == Layout_from_size_align(size_bytes, align) IN
    IF ~l.ok THEN Built(FALSE, NoBump, h)
    ELSE Built(TRUE, BumpAllocator_with_align(ptr, size_bytes, align),
               global_alloc(h, ptr, l.layout))

\* BumpAllocator::with_align(size_bytes, align), where alloc(layout) returns
\* ptr: the error of the layout, the error of a null buffer, or the allocator.
BumpAllocator_try_with_align(size_bytes, align, ptr, h) ==
    LET l == Layout_from_size_align(size_bytes, align) IN
    IF ~l.ok THEN Built(FALSE, NoBump, h)
    ELSE IF ptr = NullPtr THEN Built(FALSE, NoBump, global_alloc(h, ptr, l.layout))
    ELSE Built(TRUE, BumpAllocator_with_align(ptr, size_bytes, align),
               global_alloc(h, ptr, l.layout))

\* DoubleBumpAllocator::with_align that keeps the first buffer allocated
\* when the second construction fails.
DoubleBumpAllocator_try_with_align_leaks_first(size_bytes, align, p1, p2, h) ==
    LET a == BumpAllocator_try_with_align(size_bytes, align, p1, h) IN
    IF ~a.ok THEN Built(FALSE, NoDouble, a.heap)
    ELSE LET b == BumpAllocator_try_with_align(size_bytes, align, p2, a.heap) IN
         IF ~b.ok THEN Built(FALSE, NoDouble, b.heap)
         ELSE Built(TRUE, DoubleBumpAllocator_with_align(a.self, b.self), b.heap)

\* DoubleBumpAllocator::with_align(size_bytes, align), where the two calls
\* of alloc(layout) return p1 and p2.  The ? on the second construction
\* returns from the scope that owns a, which drops a.
DoubleBumpAllocator_try_with_align(size_bytes, align, p1, p2, h) ==
    LET a == BumpAllocator_try_with_align(size_bytes, align, p1, h) IN
    IF ~a.ok THEN Built(FALSE, NoDouble, a.heap)
    ELSE LET b == BumpAllocator_try_with_align(size_bytes, align, p2, a.heap) IN
         IF ~b.ok THEN Built(FALSE, NoDouble, BumpAllocator_drop(a.self, b.heap))
         ELSE Built(TRUE, DoubleBumpAllocator_with_align(a.self, b.self), b.heap)

\* The sizes and alignments the constructions are called with, valid and
\* invalid, and the pool sizes.
LifeSizes == {0, 1, 2, UsizeMax}
LifeAligns == {0, 1, 2, 3, BigAlign}
LifePoolSizes == {-1, 0, 1, 2}

\* What alloc(layout) may return: null, or an address of the alignment.
ProviderPtrs(align) ==
    {NullPtr} \cup {b \in (IF align > MaxAlign THEN {align} ELSE Bases) :
                        align > 0 /\ b % align = 0}

\* What the second alloc(layout) of a double buffer may return.
SecondPtrs(p1, size_bytes, align) ==
    {NullPtr} \cup
    (IF align > 0 /\ size_bytes >= 0
     THEN {RoundUp(SecondBase(p1, size_bytes), align)} ELSE {})

\* The construction call made: what was constructed, its arguments and the
\* addresses the global allocator returned to it.
Request(what, size, align, answers) ==
    [phase |-> "built", what |-> what, size |-> size, align |-> align,
     answers |-> answers]

\* The state before any allocator is constructed.
InitLife ==
    /\ InitGhost
    /\ script = NoScript
    /\ kind = "none" /\ status = "running"
    /\ sa = NoStack /\ ba = NoBump /\ dba = NoDouble
    /\ pa = NoPool /\ cells = NoCells
    /\ heap = << >>

\* BumpAllocator::with_align(size_bytes, align); new(size_bytes) is the call
\* with align = DEFAULT_ALIGNMENT.
LifeNewBump ==
    /\ kind = "none"
    /\ \E size_bytes \in LifeSizes, align \in LifeAligns :
        \E ptr \in ProviderPtrs(align) :
            LET r == BumpAllocator_try_with_align(size_bytes, align, ptr, heap) IN
            /\ kind' = IF r.ok THEN "bump" ELSE "failed"
            /\ ba' = r.self
            /\ heap' = r.heap
            /\ script' = Request("bump", size_bytes, align,
                                 IF Layout_from_size_align(size_bytes, align).ok
                                 THEN <<ptr>> ELSE << >>)
            /\ last' = Call("with_align", r.ok, r.self.buf, U8, size_bytes, align,
                            NullPtr, 0, << >>, NoPrior, TRUE)
    /\ UNCHANGED <<status, mem, sa, doubleVars, poolVars, handles, stale>>

\* DoubleBumpAllocator::with_align(size_bytes, align)
LifeNewDouble ==
    /\ kind = "none"
    /\ \E size_bytes \in LifeSizes, align \in LifeAligns :
        \E p1 \in ProviderPtrs(align) :
            \E p2 \in SecondPtrs(p1, size_bytes, align) :
                LET r == DoubleBumpAllocator_try_with_align(size_bytes, align,
                                                            p1, p2, heap) IN
                /\ kind' = IF r.ok THEN "double" ELSE "failed"
                /\ dba' = r.self
                /\ heap' = r.heap
                /\ script' = Request("double", size_bytes, align,
                                     IF ~Layout_from_size_align(size_bytes, align).ok
                                     THEN << >>
                                     ELSE IF p1 = NullPtr THEN <<p1>> ELSE <<p1, p2>>)
                /\ last' = Call("with_align", r.ok, r.self.bufs[0].buf, U8, size_bytes,
                                align, NullPtr, 0, << >>, NoPrior, TRUE)
    /\ UNCHANGED <<status, mem, sa, ba, swaps, poolVars, handles, stale>>

\* PoolAllocator::<T>::new(size)
LifeNewPool ==
    /\ kind = "none"
    /\ \E T \in PoolTypes, size \in LifePoolSizes :
        \E ptr \in {NullPtr} \cup ProviderBases(T) :
            \E o \in PoolAllocator_try_new(T, size, ptr, heap) :
                /\ kind' = PoolKind(o)
                /\ status' = o.status
                /\ pa' = o.self
                /\ cells' = o.cells
                /\ heap' = o.heap
                /\ script' = Request("pool", size, T.align,
                                     IF Layout_array(T, size).ok THEN <<ptr>> ELSE << >>)
                /\ last' = Call("new", o.status \in Operating, o.self.buf, T, size, 0,
                                NullPtr, 0, << >>, NoPrior, TRUE)
    /\ UNCHANGED <<mem, sa, ba, doubleVars, misuse, live, handles, stale>>

\* ba.release()
LifeRelease ==
    /\ kind = "bump" /\ status = "running"
    /\ kind' = "gone"
    /\ heap' = BumpAllocator_release(ba, heap)
    /\ last' = Call("release", TRUE, NullPtr, U8, 0, 0, NullPtr, 0, << >>, NoPrior, TRUE)
    /\ UNCHANGED <<status, mem, sa, ba, doubleVars, poolVars, handles, stale,
                   script>>

\* The allocator goes out of scope, at the end of its scope or when a panic
\* unwinds it: its Drop runs.  The region of a pool whose cells were stored
\* behind it is handed back with the bytes around it overwritten: dealloc
\* returns, or the global allocator aborts the process in the call.
LifeDrop ==
    /\ kind \in {"bump", "double", "pool"} /\ status \in Operating \cup {"panicked"}
    /\ kind' = "gone"
    /\ status' \in IF kind = "pool" /\ status = "overrun"
                  THEN {status, "faulted"} ELSE {status}
    /\ heap' = CASE kind = "bump"   -> BumpAllocator_drop(ba, heap)
                 [] kind = "double" -> DoubleBumpAllocator_drop(dba, heap)
                 [] kind = "pool"   -> PoolAllocator_drop(pa, heap)
    /\ last' = Call("drop", TRUE, NullPtr, U8, 0, 0, NullPtr, 0, << >>, NoPrior, TRUE)
    /\ UNCHANGED <<mem, sa, ba, doubleVars, poolVars, handles, stale, script>>

\* The lives of the allocators that own a region of the heap: construction,
\* the calls of their methods, destruction.
NextLife ==
    \/ LifeNewBump
    \/ LifeNewDouble
    \/ LifeNewPool
    \/ BumpAlloc
    \/ BumpClear
    \/ DoubleAlloc
    \/ DoubleSwap
    \/ DoubleClear
    \/ PoolAlloc
    \/ PoolDealloc
    \/ RadPtrWrite
    \/ PoolPtrWrite
    \/ LifeRelease
    \/ LifeDrop

SpecLife == InitLife /\ [][NextLife]_vars

(* ------------------- a handle deallocated twice ------------------------ *)

\* A scripted run of a pool: calls of alloc and dealloc that keep the
\* caller's discipline, then dealloc of a live handle x twice in a row, then
\* calls of alloc.  script.free is the free list before the first of the
\* two calls.
TwiceFreed(phase, x, free) == [phase |-> phase, x |-> x, free |-> free]

InitTwice ==
    /\ InitGhost
    /\ InitPool(1 .. MaxScripted)
    /\ script = TwiceFreed("use", NullPtr, << >>)

\* pa.alloc(data) on a pool that is not exhausted
TwiceUseAlloc ==
    /\ script.phase = "use" /\ status \in Operating
    /\ pa.next_available \in Owned(pa.size)
    /\ \E data \in Vals : DoPoolAlloc(data)
    /\ UNCHANGED <<kind, mem, sa, ba, doubleVars, handles, stale, script, heap>>

\* pa.dealloc(ptr) of a live handle
TwiceUseDealloc ==
    /\ script.phase = "use" /\ status \in Operating
    /\ \E ptr \in live : DoPoolDealloc(ptr)
    /\ UNCHANGED <<kind, mem, sa, ba, doubleVars, handles, stale, script, heap>>

\* *h = v through a handle alloc returned
TwiceUseWrite ==
    /\ script.phase = "use"
    /\ PoolPtrWrite

\* pa.dealloc(x) of a live handle x, the first of the two calls
TwiceFirst ==
    /\ script.phase = "use" /\ status \in Operating
    /\ \E ptr \in live :
        /\ DoPoolDealloc(ptr)
        /\ script' = TwiceFreed("once", ptr, FreeList(pa, cells))
    /\ UNCHANGED <<kind, mem, sa, ba, doubleVars, handles, stale, heap>>

\* pa.dealloc(x) again
TwiceSecond ==
    /\ script.phase = "once" /\ status \in Operating
    /\ DoPoolDealloc(script.x)
    /\ script' = [script EXCEPT !.phase = "twice"]
    /\ UNCHANGED <<kind, mem, sa, ba, doubleVars, handles, stale, heap>>

\* pa.alloc(data) after the two calls
TwiceAllocAfter ==
    /\ script.phase \in {"twice", "after"} /\ status \in Operating
    /\ \E data \in Vals : DoPoolAlloc(data)
    /\ script' = [script EXCEPT !.phase = "after"]
    /\ UNCHANGED <<kind, mem, sa, ba, doubleVars, handles, stale, heap>>

NextTwice ==
    \/ TwiceUseAlloc
    \/ TwiceUseDealloc
    \/ TwiceFirst
    \/ TwiceSecond
    \/ TwiceAllocAfter
    \/ TwiceUseWrite

SpecTwice == InitTwice /\ [][NextTwice]_vars

(* ------------------------------ claims -------------------------------- *)

\* The cursor and the buffer of the stack or bump allocator constructed.
Cursor   == IF kind = "stack" THEN sa.top ELSE ba.size
Capacity == IF kind = "stack" THEN sa.S ELSE ba.capacity
IsArena  == kind \in {"stack", "bump"}

\* The alignment padding of the last alloc call, at the cursor before it.
LastPadding == align_offset(last.buf + last.before, last.T.align)

\* The cursor the last alloc call had to reach to hold its value.
LastNeed == last.before + LastPadding + last.T.size

\* C1: in every state reached by alloc and clear calls the cursor of a stack
\* or bump allocator of capacity C satisfies 0 <= top <= C.
C1_CursorWithinCapacity ==
    IsArena => 0 <= Cursor /\ Cursor <= Capacity

\* C2: alloc returns the out-of-memory error exactly when top + padding +
\* size > C; on the error the cursor is unchanged and nothing is written, and
\* otherwise it returns a handle and the cursor advances by padding + size.
C2_ErrorIffOverflow ==
    (IsArena /\ last.op = "alloc") =>
        IF LastNeed > last.cap
        THEN ~last.ok /\ status = "running" /\ Cursor = last.before
             /\ \A a \in Addrs : a >= last.buf + last.cap => mem[a] = Unwritten
        ELSE last.ok /\ Cursor = LastNeed

\* C3: alloc on an exhausted pool (next_available is the sentinel) returns a
\* recoverable error, leaves next_available and every cell unchanged and
\* touches no cell at index -1.
C3_PoolFullIsAnError ==
    (kind = "pool" /\ last.op = "alloc" /\ last.before = Sentinel) =>
        /\ ~last.ok
        /\ status \in Operating
        /\ pa.next_available = Sentinel
        /\ cells[Sentinel] = PoolAllocator_new_cells(pa.size)[Sentinel]

\* C4: after k calls of swap the selector is 0 for an even k and 1 for an odd
\* k, so current() and current_mut() always index one of the two buffers.
C4_SelectorIsBinary ==
    kind = "double" =>
        /\ SmallValue(dba.current) = swaps
        /\ DoubleBumpAllocator_current(dba) \in {0, 1}

\* The value a handle reads now.
Reads(ptr, T) ==
    IF kind = "pool" THEN [i \in 0 .. T.size - 1 |-> PoolPtr_deref(pa, cells, ptr)]
    ELSE RadPtr_deref(mem, RadPtr(ptr, T)).value

\* C5: when alloc(v) returns a handle, dereferencing the handle right after
\* the call yields v (stack, bump and pool allocators).
C5_RoundTrip ==
    (last.op = "alloc" /\ last.ok) =>
        /\ last.ptr # NullPtr
        /\ Reads(last.ptr, last.T) = Repr(last.T, last.data)

\* The bytes of a handle.
Range(h) == h.ptr .. (h.ptr + h.T.size - 1)

\* The handles hs read in the memory m2 what they read in the memory m1.
SameReads(m1, m2, hs) ==
    \A i \in 1 .. Len(hs) : ptr_read(m2, hs[i].ptr, hs[i].T) = ptr_read(m1, hs[i].ptr, hs[i].T)

\* Every handle returned since the last clear is aligned for its type, and
\* the byte ranges of these handles are pairwise disjoint; an allocation
\* whose size and padding fit below C has succeeded.
AlignedDisjoint ==
    (IsArena /\ Cursor <= Capacity) =>
        /\ (last.op = "alloc" /\ LastNeed <= last.cap) => last.ok
        /\ \A i \in 1 .. Len(handles) :
            /\ handles[i].ptr % handles[i].T.align = 0
            /\ \A j \in 1 .. Len(handles) :
                   i # j => Range(handles[i]) \cap Range(handles[j]) = {}

\* C6: an allocation whose size and padding fit below C succeeds; every
\* handle returned since the last clear is aligned for its type, the byte
\* ranges of these handles are pairwise disjoint, and each of them reads
\* after every later call of alloc the value it read before the call.
C6_FitsAlignedDisjoint ==
    /\ []AlignedDisjoint
    /\ [][(IsArena /\ last'.op = "alloc") => SameReads(mem, mem', handles)]_vars

\* C6 witness: three or more live handles in a stack, one of them placed
\* behind padding and another one behind that, the last of them filling
\* the array.
C6_Witness ==
    /\ kind = "stack" /\ status = "running" /\ Len(handles) >= 3
    /\ last.op = "alloc" /\ last.ok /\ sa.top = sa.S
    /\ \E i \in 2 .. Len(handles) - 1 :
           /\ handles[i].ptr > handles[i - 1].ptr + handles[i - 1].T.size
           /\ handles[i + 1].ptr >= handles[i].ptr + handles[i].T.size
    /\ \A i \in 1 .. Len(handles) :
           ptr_read(mem, handles[i].ptr, handles[i].T) = Repr(handles[i].T, handles[i].val)

\* The sequences of types of MaxSeq allocations (the results of a shorter
\* sequence are the first results of a longer one).
TypeSeqs == [1 .. MaxSeq -> Types]

\* The results of the calls alloc(v) for the types of seq in turn, from the
\* allocator self and the memory m: for each whether it returned a handle
\* and the offset of the handle in the buffer (-1 for none).  A call that
\* overruns the buffer ends the sequence, with the offset Unknown.
RECURSIVE StackRun(_, _, _)
StackRun(self, m, seq) ==
    IF seq = << >> THEN << >>
    ELSE LET os == {o \in StackAllocator_alloc(self, m, Head(seq), 1) :
                        o.status = "running"}
         IN IF os = {} THEN <<[ok |-> FALSE, off |-> Unknown]>>
            ELSE LET o == CHOOSE o \in os : TRUE
                 IN <<[ok |-> o.ok, off |-> IF o.ok THEN o.ptr - self.stack ELSE -1]>>
                        \o StackRun(o.self, o.mem, Tail(seq))

RECURSIVE BumpRun(_, _, _)
BumpRun(self, m, seq) ==
    IF seq = << >> THEN << >>
    ELSE LET os == {o \in BumpAllocator_alloc(self, m, Head(seq), 1) :
                        o.status = "running"}
         IN IF os = {} THEN <<[ok |-> FALSE, off |-> Unknown]>>
            ELSE LET o == CHOOSE o \in os : TRUE
                 IN <<[ok |-> o.ok, off |-> IF o.ok THEN o.ptr - self.buf ELSE -1]>>
                        \o BumpRun(o.self, o.mem, Tail(seq))

FreshMem == [a \in Addrs |-> Unwritten]

\* C7: clear() sets the cursor to 0, and after it every sequence of
\* allocations gives the results (success, offsets) it gives on a freshly
\* constructed allocator of the same buffer.
C7_ClearRestoresCapacity ==
    (IsArena /\ last.op = "clear") =>
        /\ Cursor = 0
        /\ kind = "stack" =>
               \A seq \in TypeSeqs :
                   StackRun(sa, mem, seq)
                       = StackRun(StackAllocator_new(sa.stack, sa.S), FreshMem, seq)
        /\ kind = "bump" =>
               \A seq \in TypeSeqs :
                   BumpRun(ba, mem, seq)
                       = BumpRun(BumpAllocator_with_align(ba.buf, ba.capacity,
                                                          ba.layout.align),
                                 FreshMem, seq)

\* C7 witness: a stack allocator cleared when it was full, on which a
\* sequence that fills it exactly succeeds again.
C7_Witness ==
    /\ kind = "stack" /\ last.op = "clear" /\ last.before = sa.S /\ sa.top = 0
    /\ mem # FreshMem
    /\ \E seq \in TypeSeqs :
        LET r == StackRun(sa, mem, seq)
        IN /\ \A i \in 1 .. Len(r) : r[i].ok
           /\ r[Len(r)].off + seq[Len(seq)].size = sa.S

\* The elements of a sequence.
Elems(q) == {q[i] : i \in 1 .. Len(q)}

\* The slots the live pool handles address.
LiveSlots == {SlotOf(pa, ptr) : ptr \in live}

\* C8: while no handle is deallocated twice and alloc is not called on an
\* exhausted pool, the chain from next_available along the next fields ends
\* at the sentinel, visits no slot twice and visits exactly the slots that
\* are free; no handle alloc returns addresses the slot of a live handle.
C8_FreeListExact ==
    (kind = "pool" /\ misuse = 0 /\ status \in Operating) =>
        LET fl == FreeList(pa, cells) IN
        /\ FreeListEnd(pa, cells) = Sentinel
        /\ Cardinality(Elems(fl)) = Len(fl)
        /\ Elems(fl) = Owned(pa.size) \ LiveSlots
        /\ last.op = "alloc" => last.fresh

\* C8 witness: a pool with live handles whose free list is no longer in
\* index order, after an alloc.
C8_Witness ==
    /\ kind = "pool" /\ misuse = 0 /\ status \in Operating
    /\ last.op = "alloc" /\ last.ok /\ live # {}
    /\ LET fl == FreeList(pa, cells) IN
         /\ Len(fl) >= 2 /\ fl[1] > fl[2]
         /\ Elems(fl) = Owned(pa.size) \ LiveSlots

\* The last two calls were dealloc of a handle that was live and alloc;
\* the alloc returned the handle deallocated, and the free list is as it was
\* before the two calls.
PairOfCalls == kind = "pool" /\ last.op = "alloc" /\ last.prior.op = "dealloc" /\ last.prior.held
SlotBack ==
    /\ last.ok /\ status \in Operating
    /\ last.ptr = last.prior.ptr
    /\ FreeList(pa, cells) = last.prior.free

\* C9 as stated: in any reachable state of a pool, dealloc of a live handle
\* of slot X followed at once by one alloc returns a handle of slot X, and
\* leaves the free list as it was before the two calls.
C9_InAnyPoolState == PairOfCalls => SlotBack

\* C9: in a state of a pool reached with no handle deallocated twice and no
\* alloc on an exhausted pool, dealloc of a live handle of slot X followed
\* at once by one alloc returns a handle of slot X, and leaves the free list
\* as it was before the two calls.
C9_FreedSlotReusedFirst == (PairOfCalls /\ misuse = 0) => SlotBack

\* C9 witness: such a pair of calls on a pool with other slots free, whose
\* free list is as before.
C9_Witness ==
    /\ PairOfCalls /\ misuse = 0
    /\ last.ptr = last.prior.ptr
    /\ last.prior.free # << >> /\ FreeList(pa, cells) = last.prior.free

\* C10: after N allocations and the deallocation of all N handles, once
\* each and in any order, N further allocations all succeed and return
\* handles of N distinct slots, in the reverse of the order of deallocation;
\* the pool is then exhausted again.
C10_ReuseAfterFullRelease ==
    script.phase \in {"refill", "done"} =>
        LET N == pa.size IN
        /\ status \in Operating /\ misuse = 0
        /\ Len(script.freed) = N
        /\ \A i \in 1 .. Len(script.again) :
            /\ script.again[i] = script.freed[N + 1 - i]
            /\ SlotOf(pa, script.again[i]) \in Owned(N)
        /\ Cardinality(Elems(script.again)) = Len(script.again)
        /\ script.phase = "done" =>
            /\ Len(script.again) = N
            /\ pa.next_available = Sentinel
            /\ last.ok

\* C10 witness: the run is through for a pool of three or more slots whose
\* handles were deallocated neither in index order nor in its reverse.
C10_Witness ==
    /\ script.phase = "done" /\ pa.size >= 3 /\ status \in Operating
    /\ Len(script.again) = pa.size
    /\ \E i \in 1 .. pa.size - 1 : script.freed[i] > script.freed[i + 1]
    /\ \E i \in 1 .. pa.size - 1 : script.freed[i] < script.freed[i + 1]
    /\ \A i \in 1 .. pa.size : script.again[i] = script.freed[pa.size + 1 - i]

\* The handles held all read the values they were returned for, in memory m.
HandlesRead(m, hs) ==
    \A i \in 1 .. Len(hs) : ptr_read(m, hs[i].ptr, hs[i].T) = Repr(hs[i].T, hs[i].val)

\* C11: swap() changes the selector only: the cursors of both buffers and
\* the contents of memory are as before, and every handle held before the
\* call still reads its value after it.
C11_SwapChangesOnlySelector ==
    [][DoubleSwap =>
          /\ dba'.bufs = dba.bufs
          /\ mem' = mem
          /\ status' = "running"
          /\ handles' = handles
          /\ SameReads(mem, mem', handles)]_vars

\* C11 witness: a swap made with values allocated in the active buffer,
\* which are read through their handles after it.
C11_Witness ==
    /\ kind = "double" /\ last.op = "swap" /\ status = "running"
    /\ \E i \in 1 .. Len(handles) : handles[i].buf = 0
    /\ dba.bufs[0].size > 0
    /\ HandlesRead(mem, handles)

\* C12: clear() returns, sets the cursor of the active buffer (0 after an
\* even number of swaps, 1 after an odd number) to 0 and leaves the other
\* buffer's cursor, the selector and the contents of memory unchanged; the
\* handles into the other buffer still read their values.
C12_ClearResetsActiveOnly ==
    [][DoubleClear =>
          /\ status' = "running"
          /\ dba'.bufs[swaps].size = 0
          /\ dba'.bufs[1 - swaps] = dba.bufs[1 - swaps]
          /\ dba'.current = dba.current
          /\ mem' = mem
          /\ SameReads(mem, mem', SelectSeq(handles, LAMBDA h : h.buf # swaps))]_vars

\* The handle h reads the value it was returned for.
ReadsOwn(h) == ptr_read(mem, h.ptr, h.T) = Repr(h.T, h.val)

\* The offset at which an allocation of type T at the watermark is placed,
\* and the offset at which it ends.
PlaceAt(mark, T) == mark + align_offset(sa.stack + mark, T.align)
EndAt(mark, T) == PlaceAt(mark, T) + T.size

\* C13: after alloc A, B, C and shrink to the cursor read right after A, the
\* handle of A reads A's value; an allocation D that fits below C is then
\* returned a handle at the first offset at or after the watermark that is
\* aligned for D, which overlaps no byte of A, and lies inside the bytes B
\* and C used when it fits there; A still reads its value after D.
C13_StackRewind ==
    /\ script.phase = "D" =>
          /\ sa.top = script.mark /\ status = "running"
          /\ ReadsOwn(handles[1])
    /\ (script.phase = "done" /\ EndAt(script.mark, last.T) <= sa.S) =>
          /\ last.ok /\ status = "running"
          /\ last.ptr = sa.stack + PlaceAt(script.mark, last.T)
          /\ Range(handles[4]) \cap Range(handles[1]) = {}
          /\ ReadsOwn(handles[1]) /\ ReadsOwn(handles[4])
          /\ EndAt(script.mark, last.T) <= script.top =>
                Range(handles[4]) \subseteq
                    (sa.stack + script.mark) .. (sa.stack + script.top - 1)

\* C13 witness: D was allocated over the bytes of B and C, behind padding,
\* and A reads its value.
C13_Witness ==
    /\ script.phase = "done" /\ last.ok /\ status = "running"
    /\ Len(handles) = 4 /\ ReadsOwn(handles[1])
    /\ PlaceAt(script.mark, last.T) > script.mark
    /\ \E i \in {2, 3} : ~ReadsOwn(handles[i])
    /\ Range(handles[4]) \subseteq (sa.stack + script.mark) .. (sa.stack + script.top - 1)

\* C14: after shrink(to) or popn(n) has returned, for every argument, the
\* cursor satisfies 0 <= top' <= top <= C, and popn(n) gives top' = top - n;
\* neither call aborts.
C14_RewindWithinBounds ==
    (kind = "stack" /\ last.op \in {"shrink", "popn"}) =>
        /\ status = "running"
        /\ 0 <= sa.top /\ sa.top <= last.before /\ last.before <= sa.S
        /\ last.op = "popn" => sa.top = last.before - last.data

\* C15: every region obtained from the global allocator is freed by no call
\* of alloc, clear, swap or dealloc, and is freed exactly once, with the
\* layout it was requested with, when its allocator is released or goes out
\* of scope and when the construction of a double buffer fails at its
\* second buffer.
C15_FreedExactlyOnce ==
    \A i \in DOMAIN heap :
        /\ kind \in {"bump", "double", "pool"} => heap[i].frees = << >>
        /\ (kind \in {"gone", "failed"} /\ status \in Operating \cup {"panicked"}) =>
               heap[i].frees = <<heap[i].layout>>

\* C15 witness: the construction of a double buffer failed at the second
\* buffer, and the first buffer's region has been freed.
C15_Witness ==
    /\ kind = "failed" /\ script.phase = "built" /\ script.what = "double"
    /\ Len(script.answers) = 2 /\ script.answers[2] = NullPtr
    /\ Len(heap) = 1 /\ heap[1].frees = <<heap[1].layout>>

\* The size/alignment pair is invalid: the alignment is zero or no power of
\* two, or the size is too large (a usize kept as a negative number).
InvalidPair(size, align) ==
    \/ align = 0
    \/ ~is_power_of_two(align)
    \/ size < 0

\* The bump allocator b holds a non-null buffer of the capacity requested.
HoldsBuffer(b) ==
    /\ b.buf # NullPtr
    /\ b.capacity = script.size
    /\ b.layout = Layout(script.size, script.align)

\* C16: the construction of a bump or double allocator returns an error and
\* no allocator when the size/alignment pair is invalid or the global
\* allocator returns null, and succeeds otherwise; an allocator constructed
\* holds non-null buffers of the requested capacity, with cursor 0 right
\* after the construction; the error is returned by no call but with_align.
C16_ConstructionErrors ==
    (script.phase = "built" /\ script.what \in {"bump", "double"}) =>
        LET refused == \E i \in DOMAIN script.answers : script.answers[i] = NullPtr
            invalid == InvalidPair(script.size, script.align)
        IN /\ (invalid \/ refused) => (kind = "failed" /\ ba = NoBump /\ dba = NoDouble)
           /\ ~(invalid \/ refused) => kind # "failed"
           /\ kind = "failed" => (last.op = "with_align" /\ ~last.ok)
           /\ kind = "bump" => HoldsBuffer(ba)
           /\ kind = "double" => (HoldsBuffer(dba.bufs[0]) /\ HoldsBuffer(dba.bufs[1]))
           /\ (last.op = "with_align" /\ last.ok) =>
                  (ba.size = 0 /\ dba.bufs[0].size = 0 /\ dba.bufs[1].size = 0)

\* C16 witness: a construction with an alignment that is no power of two
\* has returned the error, with nothing allocated.
C16_Witness ==
    /\ kind = "failed" /\ script.phase = "built" /\ script.what = "bump"
    /\ script.align = 3 /\ script.size = 2
    /\ ~last.ok /\ ba = NoBump /\ heap = << >>

\* C17: the bytes of the handle a stack or bump alloc returns lie inside the
\* buffer, whatever the size and alignment of the value and the address of
\* the buffer, and no byte at offset C or beyond is written.
C17_HandleInsideBuffer ==
    (IsArena /\ last.op = "alloc" /\ last.ok) =>
        /\ InBuffer(last.ptr, last.T.size, last.buf, last.cap)
        /\ \A a \in Addrs : a >= last.buf + last.cap => mem[a] = Unwritten

\* C18: the region a pool of N slots obtained from the global allocator is
\* at least N times the size of a PoolCell<T>, and the cell of every slot
\* 0 .. N - 1 lies inside it.
C18_PoolRegionHoldsCells ==
    kind = "pool" =>
        /\ Len(heap) = 1 /\ heap[1].ptr = pa.buf
        /\ heap[1].layout.size >= pa.size * PoolCell_size(pa.T)
        /\ \A c \in Owned(pa.size) :
               InBuffer(PoolAllocator_at_ptr(pa, c), PoolCell_size(pa.T),
                        pa.buf, heap[1].layout.size)

\* The slots n calls of alloc return in turn, from the pool self with the
\* cells cs, and the pool they leave; a call outside the array ends them.
RECURSIVE PoolRun(_, _, _)
PoolRun(self, cs, n) ==
    LET os == {o \in PoolAllocator_alloc(self, cs, 1) : o.status \in Operating} IN
    IF n = 0 \/ os = {} THEN [slots |-> << >>, self |-> self]
    ELSE LET o    == CHOOSE o \in os : TRUE
             rest == PoolRun(o.self, o.cells, n - 1)
         IN [slots |-> <<SlotOf(self, o.ptr)>> \o rest.slots, self |-> rest.self]

\* C19: PoolAllocator::new(N), when it returns a pool, leaves next_available = 0,
\* slot = i and next = i + 1 in every cell i < N - 1 and next = -1 in the
\* last cell, and writes no cell outside 0 .. N - 1 (none for N = 0); the
\* first N calls of alloc return the slots 0, 1, ..., N - 1 and leave
\* next_available = -1.
C19_FreshPoolLayout ==
    (script.phase = "built" /\ script.what = "pool" /\ last.op = "new"
         /\ script.size >= 0 /\ script.answers # <<NullPtr>> /\ kind = "pool") =>
        LET N   == script.size
            run == PoolRun(pa, cells, N)
        IN /\ status \in Operating
           /\ pa.size = N /\ pa.next_available = 0
           /\ \A i \in Owned(N) :
                  /\ cells[i].slot = i
                  /\ cells[i].next = IF i = N - 1 THEN Sentinel ELSE i + 1
           /\ cells[-1].slot = Unknown /\ cells[-1].next = Unknown
           /\ run.slots = [i \in 1 .. N |-> i - 1]
           /\ N > 0 => run.self.next_available = Sentinel

\* C20: dealloc called twice in a row on a handle of slot X returns both
\* times and leaves next = X in cell X and next_available = X; every alloc
\* after it returns a handle of slot X, from the second on a handle that is
\* live already; the free list never ends at the sentinel, and no slot that
\* was on the free list before the two calls is on it.
C20_DoubleFreeSelfCycle ==
    script.phase \in {"twice", "after"} =>
        LET X == SlotOf(pa, script.x) IN
        /\ status \in Operating /\ last.ok
        /\ X \in Owned(pa.size)
        /\ cells[X].next = X /\ pa.next_available = X
        /\ FreeListEnd(pa, cells) # Sentinel
        /\ \A c \in Elems(script.free) : c \notin Elems(FreeList(pa, cells))
        /\ script.phase = "after" =>
              /\ last.op = "alloc" /\ last.ptr = script.x
              /\ last.prior.op # "dealloc" => ~last.fresh

\* C20 witness: after the two calls an alloc has returned slot X a second
\* time, with another handle live and slots that were free before lost.
C20_Witness ==
    /\ script.phase = "after" /\ status \in Operating
    /\ last.op = "alloc" /\ last.ptr = script.x /\ ~last.fresh
    /\ script.free # << >>
    /\ \E ptr \in live : ptr # script.x
    /\ cells[SlotOf(pa, script.x)].next = SlotOf(pa, script.x)

====
